---- MODULE Spec2Model ----
(***************************************************************************)
(* Model of @epsor/mongodb-wrapper: the connection manager (MongoWrapper)  *)
(* and the collection accessor (MongoCollectionWrapper).                   *)
(*                                                                         *)
(* Every async method is split at its awaits: the part up to the await     *)
(* (guard, driver call issued) is the ...Call action, the continuation     *)
(* that runs when the driver's promise settles is the action that follows. *)
(* The engine executes a driver call atomically at the moment the promise  *)
(* settles.  Callers are independent, so calls may overlap.                *)
(***************************************************************************)
EXTENDS Naturals, Sequences, FiniteSets

(* ------------------------------ bounds -------------------------------- *)

\* driver connects issued over a run
MaxConnects ==
  3

\* close calls issued on one client
MaxCloses ==
  2

\* insertOne calls issued over a run
MaxInserts ==
  2

Procs == {1, 2}

\* null as a client handle, as a string and as a database handle
Null == 0
NullStr == "null"
NullDb == [client |-> 0, name |-> "null"]
Undefined == "undefined"
This == "this"

Urls == {"aaa"}
DbNames == {"bb", "cc"}

VARIABLES
  connected, connection, db,      \* MongoWrapper fields
  clients,                        \* clients the driver has opened
  connects,                       \* MongoClient.connect calls issued
  mcall,                          \* per caller: the manager call in progress
  collectionName, collection,     \* MongoCollectionWrapper fields / engine data
  nextId,                         \* engine's _id generator
  inserts,                        \* insertOne calls issued
  ccall                           \* per caller: the accessor call in progress

mvars == <<connected, connection, db, clients, connects, mcall>>
cvars == <<collectionName, collection, nextId, inserts, ccall>>
vars == <<connected, connection, db, clients, connects, mcall,
          collectionName, collection, nextId, inserts, ccall>>

(* ------------------------------ results ------------------------------- *)

Ok(v) == [kind |-> "ok", value |-> v]

Err(type, message) == [kind |-> "error", type |-> type, message |-> message]

\* a failure raised by the driver itself
DriverError == Err("Error", <<"driver failure">>)

\* no call has settled yet
NoResult == [kind |-> "none"]

(* ========================== MongoWrapper ============================== *)

ConstructorConnected ==
  [connected |-> TRUE, connection |-> Null, db |-> NullDb]

\* constructor: connected = false, connection = null, db = null
Constructor ==
  [connected |-> FALSE, connection |-> Null, db |-> NullDb]

IdleM ==
  [op |-> "none", pc |-> "idle", url |-> NullStr, dbName |-> NullStr,
   drvConnect |-> <<>>, drvDb |-> <<>>, drvClose |-> <<>>,
   result |-> NoResult]

FieldsNow ==
  [connected |-> connected, connection |-> connection, db |-> db]

\* connect's guard: if (this.connected) throw
AlreadyConnectedNoGuard(isConnected) ==
  FALSE

AlreadyConnected(isConnected) ==
  isConnected

\* disconnect's guard: if (!this.connected) throw
NotConnected(isConnected) ==
  ~isConnected

\* this.connection.db(db): the database handle of client c
SelectDbIgnoresName(c, name) ==
  [client |-> c, name |-> "admin"]

SelectDb(c, name) ==
  [client |-> c, name |-> name]

\* the three assignments that end disconnect
DisconnectedFieldsKeepHandles(f) ==
  [connected |-> FALSE, connection |-> f.connection, db |-> f.db]

DisconnectedFields(f) ==
  [connected |-> FALSE, connection |-> Null, db |-> NullDb]

\* connect(mongoDbUrl, db) up to its await
ConnectCall(p, url, name) ==
  /\ mcall[p].pc \in {"idle", "done"}
  /\ IF AlreadyConnected(connected)
       THEN /\ mcall' = [mcall EXCEPT ![p] =
                 [IdleM EXCEPT !.op = "connect", !.pc = "done", !.url = url,
                    !.dbName = name,
                    !.result = Err("MongoError", <<"Already connected.">>)]]
            /\ UNCHANGED connects
       ELSE /\ connects < MaxConnects
            /\ mcall' = [mcall EXCEPT ![p] =
                 [IdleM EXCEPT !.op = "connect", !.pc = "awaitConnect",
                    !.url = url, !.dbName = name,
                    !.drvConnect = <<[url |-> url,
                                      options |-> [useNewUrlParser |-> TRUE]]>>]]
            /\ connects' = connects + 1
  /\ UNCHANGED <<connected, connection, db, clients>>
  /\ UNCHANGED cvars

\* the driver's connect rejects: connect rejects with the same error
ConnectFail(p) ==
  /\ mcall[p].pc = "awaitConnect"
  /\ mcall' = [mcall EXCEPT ![p].pc = "done", ![p].result = DriverError]
  /\ UNCHANGED <<connected, connection, db, clients, connects>>
  /\ UNCHANGED cvars

\* calls of the client's on operation made by connect: the client is
\* assigned to this.connection and used for db(...) only
ListenersRegistered ==
  0

\* the driver's connect resolves with a new client; the rest of connect runs
ConnectResume(p) ==
  /\ mcall[p].pc = "awaitConnect"
  /\ LET c == Len(clients) + 1 IN
       /\ clients' = Append(clients,
             [url |-> mcall[p].drvConnect[1].url, closeCalls |-> 0,
              closed |-> FALSE, listeners |-> ListenersRegistered])
       /\ connection' = c
       /\ \E dbOk \in BOOLEAN :
            IF dbOk
              THEN /\ db' = SelectDb(c, mcall[p].dbName)
                   /\ connected' = TRUE
                   /\ mcall' = [mcall EXCEPT ![p].pc = "done",
                        ![p].drvDb = <<[client |-> c, name |-> mcall[p].dbName,
                                        threw |-> FALSE]>>,
                        ![p].result = Ok(This)]
              ELSE \* db(name) throws: the two remaining assignments never run
                   /\ UNCHANGED <<db, connected>>
                   /\ mcall' = [mcall EXCEPT ![p].pc = "done",
                        ![p].drvDb = <<[client |-> c, name |-> mcall[p].dbName,
                                        threw |-> TRUE]>>,
                        ![p].result = DriverError]
  /\ UNCHANGED connects
  /\ UNCHANGED cvars

\* disconnect() up to its await
DisconnectCall(p) ==
  /\ mcall[p].pc \in {"idle", "done"}
  /\ IF NotConnected(connected)
       THEN /\ mcall' = [mcall EXCEPT ![p] =
                 [IdleM EXCEPT !.op = "disconnect", !.pc = "done",
                    !.result = Err("MongoError", <<"Not connected.">>)]]
            /\ UNCHANGED clients
       ELSE /\ connection # Null
            /\ clients[connection].closeCalls < MaxCloses
            /\ mcall' = [mcall EXCEPT ![p] =
                 [IdleM EXCEPT !.op = "disconnect", !.pc = "awaitClose",
                    !.drvClose = <<connection>>]]
            /\ clients' = [clients EXCEPT ![connection].closeCalls = @ + 1]
  /\ UNCHANGED <<connected, connection, db, connects>>
  /\ UNCHANGED cvars

\* close() rejects: disconnect rejects with the same error
DisconnectFail(p) ==
  /\ mcall[p].pc = "awaitClose"
  /\ mcall' = [mcall EXCEPT ![p].pc = "done", ![p].result = DriverError]
  /\ UNCHANGED <<connected, connection, db, clients, connects>>
  /\ UNCHANGED cvars

\* close() resolves; the rest of disconnect runs
DisconnectResume(p) ==
  /\ mcall[p].pc = "awaitClose"
  /\ clients' = [clients EXCEPT ![mcall[p].drvClose[1]].closed = TRUE]
  /\ LET f == DisconnectedFields(FieldsNow) IN
       /\ connected' = f.connected
       /\ connection' = f.connection
       /\ db' = f.db
  /\ mcall' = [mcall EXCEPT ![p].pc = "done", ![p].result = Ok(This)]
  /\ UNCHANGED connects
  /\ UNCHANGED cvars

InitConn ==
  /\ connected = Constructor.connected
  /\ connection = Constructor.connection
  /\ db = Constructor.db
  /\ clients = <<>>
  /\ connects = 0
  /\ mcall = [p \in Procs |-> IdleM]
  /\ collectionName = NullStr
  /\ collection = {}
  /\ nextId = 1
  /\ inserts = 0
  /\ ccall = [p \in Procs |-> NoResult]

NextConn ==
  \E p \in Procs :
    \/ \E url \in Urls, name \in DbNames : ConnectCall(p, url, name)
    \/ ConnectFail(p)
    \/ ConnectResume(p)
    \/ DisconnectCall(p)
    \/ DisconnectFail(p)
    \/ DisconnectResume(p)

SpecConn == InitConn /\ [][NextConn]_vars

(* ====================== MongoCollectionWrapper ======================== *)

Uuids == {"aaa", "bbb"}
CollectionNames == {"test", "users"}

\* documents handed to insertOne: a uuid, with or without other fields
InputDocs ==
  {[uuid |-> u, foo |-> "bar"] : u \in Uuids} \cup {[uuid |-> "aaa"]}

\* filters handed to updateOne / deleteOne
Filters ==
  {[uuid |-> "aaa"], [foo |-> "bar"]}

\* fields handed to updateOne
UpdateFields ==
  {[foo |-> "baz"]}

\* strategy argument of updateOne; Undefined is the omitted argument
Strategies == {Undefined, "$set", "$unset"}

\* the value of a find-and-modify result when nothing matched
NullDoc == [null |-> TRUE]

NoArg == [none |-> TRUE]

IdleC ==
  [op |-> "none", pc |-> "idle", arg |-> NoArg, uuid |-> NullStr,
   fields |-> NoArg, drv |-> <<>>, sent |-> NoArg, result |-> NoResult]

\* a call that has settled keeps its method, the driver calls it made and
\* its result
Settled(c, r) ==
  [IdleC EXCEPT !.op = c.op, !.pc = "done", !.drv = c.drv, !.result = r]

(* ---- the engine, as the driver calls below use it ---- *)

\* a document matches a filter when it has every field of the filter
Matches(doc, filter) ==
  \A k \in DOMAIN filter : k \in DOMAIN doc /\ doc[k] = filter[k]

\* collection.find(filter).toArray()
DbFind(coll, filter) ==
  {e \in coll : Matches(e.doc, filter)}

DbInsertOneUniqueUuid(coll, id, doc) ==
  IF DbFind(coll, [uuid |-> doc.uuid]) = {}
    THEN coll \cup {[id |-> id, doc |-> doc]}
    ELSE coll

\* collection.insertOne(doc): no uniqueness constraint is declared
DbInsertOne(coll, id, doc) ==
  coll \cup {[id |-> id, doc |-> doc]}

\* the update document { [strategy]: fields } applied to a document
ApplyUpdate(doc, update) ==
  IF update.op = "$set"
    THEN [k \in DOMAIN doc \cup DOMAIN update.fields |->
            IF k \in DOMAIN update.fields THEN update.fields[k] ELSE doc[k]]
    ELSE [k \in DOMAIN doc \ DOMAIN update.fields |-> doc[k]]

\* collection.findOneAndUpdate(filter, update) without options: upsert is
\* false and returnOriginal is true, so value is the document as it was
FindOneAndUpdate(coll, filter, update) ==
  IF DbFind(coll, filter) = {}
    THEN {[coll |-> coll, value |-> NullDoc]}
    ELSE {[coll |-> (coll \ {e}) \cup
                      {[id |-> e.id, doc |-> ApplyUpdate(e.doc, update)]},
           value |-> e.doc] : e \in DbFind(coll, filter)}

FindOneAndDeleteEveryMatch(coll, filter) ==
  IF DbFind(coll, filter) = {}
    THEN {[coll |-> coll, value |-> NullDoc]}
    ELSE {[coll |-> coll \ DbFind(coll, filter), value |-> e.doc] :
            e \in DbFind(coll, filter)}

\* collection.findOneAndDelete(filter)
FindOneAndDelete(coll, filter) ==
  IF DbFind(coll, filter) = {}
    THEN {[coll |-> coll, value |-> NullDoc]}
    ELSE {[coll |-> coll \ {e}, value |-> e.doc] : e \in DbFind(coll, filter)}

(* ---- insertOne ---- *)

\* { uuid, ...fields } as a parameter: the fields other than uuid
RestFields(doc) ==
  [k \in DOMAIN doc \ {"uuid"} |-> doc[k]]

RebuildUuidOnly(uuid, fields) ==
  [k \in {"uuid"} |-> uuid]

\* { uuid, ...fields } as an object literal
Rebuild(uuid, fields) ==
  [k \in {"uuid"} \cup DOMAIN fields |->
     IF k \in DOMAIN fields THEN fields[k] ELSE uuid]

ExistingLengthIgnored(existingDocument) ==
  FALSE

\* if (existingDocument.length)
ExistingLength(existingDocument) ==
  Cardinality(existingDocument) # 0

DuplicateEntry(name) ==
  Err("MongoDuplicateEntryError",
      <<"Cannot insert into ", name, ": UUID already exists.">>)

\* insertOne({ uuid, ...fields }) up to its await
InsertOneCall(p, doc) ==
  /\ ccall[p].pc \in {"idle", "done"}
  /\ inserts < MaxInserts
  /\ inserts' = inserts + 1
  /\ ccall' = [ccall EXCEPT ![p] =
       [IdleC EXCEPT !.op = "insertOne", !.pc = "awaitFind", !.arg = doc,
          !.uuid = doc.uuid, !.fields = RestFields(doc),
          !.drv = <<"find">>, !.sent = [filter |-> [uuid |-> doc.uuid]]]]
  /\ UNCHANGED <<collectionName, collection, nextId>>
  /\ UNCHANGED mvars

\* the probe resolves; duplicate check; the insert is issued
InsertOneFound(p) ==
  /\ ccall[p].pc = "awaitFind"
  /\ LET existingDocument == DbFind(collection, ccall[p].sent.filter) IN
       IF ExistingLength(existingDocument)
         THEN ccall' = [ccall EXCEPT ![p] =
                Settled(ccall[p], DuplicateEntry(collectionName))]
         ELSE ccall' = [ccall EXCEPT ![p].pc = "awaitInsert",
                ![p].drv = Append(@, "insertOne"),
                ![p].sent = [doc |-> Rebuild(ccall[p].uuid, ccall[p].fields)]]
  /\ UNCHANGED <<collectionName, collection, nextId, inserts>>
  /\ UNCHANGED mvars

\* the insert resolves; its result is insertOne's result
InsertOneInserted(p) ==
  /\ ccall[p].pc = "awaitInsert"
  /\ collection' = DbInsertOne(collection, nextId, ccall[p].sent.doc)
  /\ nextId' = nextId + 1
  /\ ccall' = [ccall EXCEPT ![p] =
       Settled(ccall[p], Ok([insertedCount |-> 1, insertedId |-> nextId,
                             ops |-> <<ccall[p].sent.doc>>]))]
  /\ UNCHANGED <<collectionName, inserts>>
  /\ UNCHANGED mvars

(* ---- updateOne ---- *)

\* strategy = '$set' as a default parameter
DefaultStrategy(strategy) ==
  IF strategy = Undefined THEN "$set" ELSE strategy

NonExistentEntry(verb, name) ==
  Err("MongoNonExistentEntryError", <<verb, name, ": UUID doesn't exists.">>)

UpdateOneReturnUnchecked(name, value) ==
  Ok(value)

\* if (!value) throw ...; return value
UpdateOneReturn(name, value) ==
  IF value = NullDoc THEN NonExistentEntry("Cannot update ", name) ELSE Ok(value)

\* if (!value) throw ...; return value
DeleteOneReturn(name, value) ==
  IF value = NullDoc THEN NonExistentEntry("Cannot delete ", name) ELSE Ok(value)

\* updateOne(filters, fields, strategy) up to its await
UpdateOneCall(p, filters, fields, strategy) ==
  /\ ccall[p].pc \in {"idle", "done"}
  /\ ccall' = [ccall EXCEPT ![p] =
       [IdleC EXCEPT !.op = "updateOne", !.pc = "awaitUpdate",
          !.arg = filters, !.drv = <<"findOneAndUpdate">>,
          !.sent = [filter |-> filters,
                    update |-> [op |-> DefaultStrategy(strategy),
                                fields |-> fields]]]]
  /\ UNCHANGED <<collectionName, collection, nextId, inserts>>
  /\ UNCHANGED mvars

\* the find-and-update resolves; existence check
UpdateOneSettled(p) ==
  /\ ccall[p].pc = "awaitUpdate"
  /\ \E r \in FindOneAndUpdate(collection, ccall[p].sent.filter,
                               ccall[p].sent.update) :
       /\ collection' = r.coll
       /\ ccall' = [ccall EXCEPT ![p] =
            Settled(ccall[p], UpdateOneReturn(collectionName, r.value))]
  /\ UNCHANGED <<collectionName, nextId, inserts>>
  /\ UNCHANGED mvars

(* ---- deleteOne ---- *)

\* deleteOne(fields) up to its await
DeleteOneCall(p, fields) ==
  /\ ccall[p].pc \in {"idle", "done"}
  /\ ccall' = [ccall EXCEPT ![p] =
       [IdleC EXCEPT !.op = "deleteOne", !.pc = "awaitDelete",
          !.drv = <<"findOneAndDelete">>, !.sent = [filter |-> fields]]]
  /\ UNCHANGED <<collectionName, collection, nextId, inserts>>
  /\ UNCHANGED mvars

\* the find-and-delete resolves; existence check
DeleteOneSettled(p) ==
  /\ ccall[p].pc = "awaitDelete"
  /\ \E r \in FindOneAndDelete(collection, ccall[p].sent.filter) :
       /\ collection' = r.coll
       /\ ccall' = [ccall EXCEPT ![p] =
            Settled(ccall[p], DeleteOneReturn(collectionName, r.value))]
  /\ UNCHANGED <<collectionName, nextId, inserts>>
  /\ UNCHANGED mvars

DriverCallFailsRetried(p) ==
  /\ ccall[p].pc \in {"awaitFind", "awaitInsert", "awaitUpdate", "awaitDelete",
                      "awaitUpdateMany", "awaitDeleteMany"}
  /\ ccall' = [ccall EXCEPT ![p] =
       Settled([ccall[p] EXCEPT !.drv = Append(@, @[Len(@)])], DriverError)]
  /\ UNCHANGED <<collectionName, collection, nextId, inserts>>
  /\ UNCHANGED mvars

\* the pending driver call rejects: the method rejects with the same error
DriverCallFails(p) ==
  /\ ccall[p].pc \in {"awaitFind", "awaitInsert", "awaitUpdate", "awaitDelete",
                      "awaitUpdateMany", "awaitDeleteMany"}
  /\ ccall' = [ccall EXCEPT ![p] = Settled(ccall[p], DriverError)]
  /\ UNCHANGED <<collectionName, collection, nextId, inserts>>
  /\ UNCHANGED mvars

\* an accessor bound to a collection of the engine, which starts empty
InitColl ==
  /\ collectionName \in CollectionNames
  /\ collection = {}
  /\ nextId = 1
  /\ inserts = 0
  /\ ccall = [p \in Procs |-> IdleC]
  /\ connected = Constructor.connected
  /\ connection = Constructor.connection
  /\ db = Constructor.db
  /\ clients = <<>>
  /\ connects = 0
  /\ mcall = [p \in Procs |-> IdleM]

NextColl ==
  \E p \in Procs :
    \/ \E doc \in InputDocs : InsertOneCall(p, doc)
    \/ InsertOneFound(p)
    \/ InsertOneInserted(p)
    \/ \E f \in Filters, u \in UpdateFields, s \in Strategies :
         UpdateOneCall(p, f, u, s)
    \/ UpdateOneSettled(p)
    \/ \E f \in Filters : DeleteOneCall(p, f)
    \/ DeleteOneSettled(p)
    \/ DriverCallFails(p)

SpecColl == InitColl /\ [][NextColl]_vars

(* ---- updateMany, deleteMany, safeInsertSubfields ---- *)

\* a string passed where the driver expects a filter object; it selects no
\* document
StringFilters ==
  {[string |-> "aaa"]}

\* fields handed to safeInsertSubfields: the first key and its value
SubFields ==
  {[key |-> "items", value |-> [uuid |-> u]] : u \in {"bbb", "ddd"}}

\* the value bound by const { value } when the result has no such field
UndefinedDoc == [undefined |-> TRUE]

\* const { value } = result
DestructureValue(result) ==
  IF "value" \in DOMAIN result THEN result.value ELSE UndefinedDoc

\* collection.updateMany(filter, update): every match is updated; the result
\* reports counts and carries no value field
DbUpdateMany(coll, filter, update) ==
  [coll |-> {IF Matches(e.doc, filter)
               THEN [id |-> e.id, doc |-> ApplyUpdate(e.doc, update)]
               ELSE e : e \in coll},
   result |-> [matchedCount |-> Cardinality(DbFind(coll, filter))]]

\* collection.findAndRemove(query): a find-and-modify with remove set, which
\* removes at most one document and reports it as value
FindAndRemove(coll, query) ==
  {[coll |-> r.coll, result |-> [value |-> r.value, ok |-> 1]] :
     r \in FindOneAndDelete(coll, query)}

UpdateManyReturnChecked(name, value) ==
  IF value \in {NullDoc, UndefinedDoc}
    THEN NonExistentEntry("Cannot update ", name)
    ELSE Ok(value)

\* return value
UpdateManyReturn(name, value) ==
  Ok(value)

DeleteManyReturnChecked(name, value) ==
  IF value \in {NullDoc, UndefinedDoc}
    THEN NonExistentEntry("Cannot delete ", name)
    ELSE Ok(value)

\* return value
DeleteManyReturn(name, value) ==
  Ok(value)

\* updateMany(filters, fields, stategy) up to its await
UpdateManyCall(p, filters, fields, stategy) ==
  /\ ccall[p].pc \in {"idle", "done"}
  /\ ccall' = [ccall EXCEPT ![p] =
       [IdleC EXCEPT !.op = "updateMany", !.pc = "awaitUpdateMany",
          !.arg = filters, !.drv = <<"updateMany">>,
          !.sent = [filter |-> filters,
                    update |-> [op |-> DefaultStrategy(stategy),
                                fields |-> fields]]]]
  /\ UNCHANGED <<collectionName, collection, nextId, inserts>>
  /\ UNCHANGED mvars

\* the driver's updateMany resolves
UpdateManySettled(p) ==
  /\ ccall[p].pc = "awaitUpdateMany"
  /\ LET r == DbUpdateMany(collection, ccall[p].sent.filter,
                           ccall[p].sent.update) IN
       /\ collection' = r.coll
       /\ ccall' = [ccall EXCEPT ![p] =
            Settled(ccall[p],
                    UpdateManyReturn(collectionName, DestructureValue(r.result)))]
  /\ UNCHANGED <<collectionName, nextId, inserts>>
  /\ UNCHANGED mvars

\* deleteMany(fields) up to its await
DeleteManyCall(p, fields) ==
  /\ ccall[p].pc \in {"idle", "done"}
  /\ ccall' = [ccall EXCEPT ![p] =
       [IdleC EXCEPT !.op = "deleteMany", !.pc = "awaitDeleteMany",
          !.arg = fields, !.drv = <<"findAndRemove">>,
          !.sent = [filter |-> fields]]]
  /\ UNCHANGED <<collectionName, collection, nextId, inserts>>
  /\ UNCHANGED mvars

\* the driver's findAndRemove resolves
DeleteManySettled(p) ==
  /\ ccall[p].pc = "awaitDeleteMany"
  /\ \E r \in FindAndRemove(collection, ccall[p].sent.filter) :
       /\ collection' = r.coll
       /\ ccall' = [ccall EXCEPT ![p] =
            Settled(ccall[p],
                    DeleteManyReturn(collectionName, DestructureValue(r.result)))]
  /\ UNCHANGED <<collectionName, nextId, inserts>>
  /\ UNCHANGED mvars

\* the methods of the cursor that find(...).limit(1) returns, among those the
\* code calls on a cursor; size is not one of them
CursorMethods ==
  {"limit", "toArray", "count"}

\* find({ 'k.uuid': v }): the documents whose field k is an array holding an
\* element with that uuid
SubfieldFind(coll, k, v) ==
  {e \in coll : /\ k \in DOMAIN e.doc
                /\ \E i \in DOMAIN e.doc[k] : e.doc[k][i].uuid = v}

\* safeInsertSubfields(filters, fields): find and limit are called, then size,
\* which the cursor does not have, so the call throws a TypeError before any
\* await and the method rejects with it
SafeInsertSubfieldsCall(p, filters, fields) ==
  /\ ccall[p].pc \in {"idle", "done"}
  /\ "size" \notin CursorMethods
  /\ ccall' = [ccall EXCEPT ![p] =
       [IdleC EXCEPT !.op = "safeInsertSubfields", !.pc = "done",
          !.drv = <<"find", "limit">>,
          !.sent = [path |-> <<fields.key, "uuid">>, value |-> fields.value.uuid],
          !.result = Err("TypeError", <<"size is not a function">>)]]
  /\ UNCHANGED <<collectionName, collection, nextId, inserts>>
  /\ UNCHANGED mvars

\* stored documents the engine may hold when the accessor is built
SeedDocs ==
  <<[id |-> 1, doc |-> [uuid |-> "aaa", foo |-> "bar"]],
    [id |-> 2, doc |-> [uuid |-> "bbb", foo |-> "bar"]],
    [id |-> 3, doc |-> [uuid |-> "ccc", foo |-> "qux",
                        items |-> <<[uuid |-> "bbb"]>>]]>>

SeedCollections ==
  {{}, {SeedDocs[1]}, {SeedDocs[1], SeedDocs[2]},
   {SeedDocs[1], SeedDocs[2], SeedDocs[3]}}

\* an accessor bound to a collection that already holds documents
InitMany ==
  /\ collectionName \in CollectionNames
  /\ collection \in SeedCollections
  /\ nextId = Len(SeedDocs) + 1
  /\ inserts = 0
  /\ ccall = [p \in Procs |-> IdleC]
  /\ connected = Constructor.connected
  /\ connection = Constructor.connection
  /\ db = Constructor.db
  /\ clients = <<>>
  /\ connects = 0
  /\ mcall = [p \in Procs |-> IdleM]

NextMany ==
  \E p \in Procs :
    \/ \E f \in Filters \cup StringFilters, u \in UpdateFields :
         UpdateOneCall(p, f, u, Undefined)
    \/ UpdateOneSettled(p)
    \/ \E f \in Filters, u \in UpdateFields, s \in Strategies :
         UpdateManyCall(p, f, u, s)
    \/ UpdateManySettled(p)
    \/ \E f \in Filters : DeleteManyCall(p, f)
    \/ DeleteManySettled(p)
    \/ \E f \in Filters, u \in SubFields : SafeInsertSubfieldsCall(p, f, u)
    \/ DriverCallFails(p)

SpecMany == InitMany /\ [][NextMany]_vars

(* ---- all checked operations of the accessor together ---- *)

\* the caller of the operations below
Caller == 2

\* every operation of the accessor that adds logic to a driver call, called
\* by one caller on a collection that already holds documents
NextAll ==
  \/ \E doc \in InputDocs : InsertOneCall(Caller, doc)
  \/ InsertOneFound(Caller)
  \/ InsertOneInserted(Caller)
  \/ \E f \in Filters \cup StringFilters, u \in UpdateFields, s \in Strategies :
       UpdateOneCall(Caller, f, u, s)
  \/ UpdateOneSettled(Caller)
  \/ \E f \in Filters : DeleteOneCall(Caller, f)
  \/ DeleteOneSettled(Caller)
  \/ \E f \in Filters, u \in UpdateFields, s \in Strategies :
       UpdateManyCall(Caller, f, u, s)
  \/ UpdateManySettled(Caller)
  \/ \E f \in Filters : DeleteManyCall(Caller, f)
  \/ DeleteManySettled(Caller)
  \/ \E f \in Filters, u \in SubFields : SafeInsertSubfieldsCall(Caller, f, u)
  \/ DriverCallFails(Caller)

SpecAll == InitMany /\ [][NextAll]_vars

\* no other caller is inside a call
Quiet(p) ==
  \A q \in Procs \ {p} : ccall[q].pc \in {"idle", "done"}

\* insertOne, updateOne and deleteOne calls that do not overlap: a call is
\* started only when every other call has finished
NextSeq ==
  \E p \in Procs :
    \/ \E doc \in InputDocs : Quiet(p) /\ InsertOneCall(p, doc)
    \/ InsertOneFound(p)
    \/ InsertOneInserted(p)
    \/ \E f \in Filters, u \in UpdateFields, s \in Strategies :
         Quiet(p) /\ UpdateOneCall(p, f, u, s)
    \/ UpdateOneSettled(p)
    \/ \E f \in Filters : Quiet(p) /\ DeleteOneCall(p, f)
    \/ DeleteOneSettled(p)
    \/ DriverCallFails(p)

SpecSeq == InitMany /\ [][NextSeq]_vars

(* ============ construction and pass-through operations =============== *)

\* a client handle built outside any manager, as the tests build it
ClientMock == [client |-> 0, name |-> "clientMock"]

\* collection names handed to the constructor and to MongoWrapper.collection
NameArgs == {"test", "users", "", NullStr}

\* arguments handed to a pass-through operation
PassArgs == {<<"aplfa", "beta", "charly">>}

\* what a driver operation called by a pass-through does: it returns a value
\* or throws
DriverOutcomes == {Ok("driverResult"), DriverError}

\* !collectionName
Falsy(s) == s \in {"", NullStr, Undefined}

ConstructorGuardNameFirst(mongoClient, name) ==
  IF Falsy(name)
    THEN Err("MongoError", <<"Collection name is not provided.">>)
    ELSE IF mongoClient = NullDb
      THEN Err("MongoError", <<"Mongo client is not provided.">>)
      ELSE NoResult

\* the two guards that open the constructor; NoResult when neither throws
ConstructorGuard(mongoClient, name) ==
  IF mongoClient = NullDb
    THEN Err("MongoError", <<"Mongo client is not provided.">>)
    ELSE IF Falsy(name)
      THEN Err("MongoError", <<"Collection name is not provided.">>)
      ELSE NoResult

\* the handle mongoClient.collection(collectionName) returns
DriverCollection(mongoClient, name) ==
  [db |-> mongoClient, name |-> name]

NewInstanceUnnamed(handle, name) ==
  [collection |-> handle, collectionName |-> NullStr]

\* this.collection = ...; this.collectionName = collectionName
NewInstance(handle, name) ==
  [collection |-> handle, collectionName |-> name]

\* a call of the construction and pass-through operations: the method, the
\* position, the arguments, the driver calls made, how often the returned
\* promise was settled, and the outcome
ApiCall(op, pc, arg, drv, settles, result) ==
  [op |-> op, pc |-> pc, arg |-> arg, drv |-> drv, settles |-> settles,
   result |-> result]

\* new MongoCollectionWrapper(mongoClient, collectionName, ...args) up to the
\* await in the promise executor; op names the method the caller used and
\* rest the arguments the caller gave it after the name
NewMongoCollectionWrapper(p, op, rest, mongoClient, name, args) ==
  /\ ccall[p].pc \in {"idle", "done"}
  /\ LET arg == [mongoClient |-> mongoClient, collectionName |-> name,
                 rest |-> rest]
         thrown == ConstructorGuard(mongoClient, name) IN
       IF thrown # NoResult
         THEN ccall' = [ccall EXCEPT ![p] =
                ApiCall(op, "done", arg, <<>>, 0, thrown)]
         ELSE ccall' = [ccall EXCEPT ![p] =
                ApiCall(op, "awaitCollection", arg,
                        <<[on |-> mongoClient, fn |-> "collection",
                           args |-> <<name>> \o args]>>, 0, NoResult)]
  /\ UNCHANGED <<collectionName, collection, nextId, inserts>>
  /\ UNCHANGED mvars

\* new MongoCollectionWrapper(mongoClient, collectionName)
ConstructorCall(p, mongoClient, name) ==
  NewMongoCollectionWrapper(p, "constructor", <<>>, mongoClient, name, <<>>)

\* the client's collection operation returned a handle: both fields are
\* assigned and the promise resolves to the instance
ConstructorResolved(p) ==
  /\ ccall[p].pc = "awaitCollection"
  /\ LET sent == ccall[p].drv[1]
         self == NewInstance(DriverCollection(sent.on, sent.args[1]),
                             ccall[p].arg.collectionName) IN
       ccall' = [ccall EXCEPT ![p].pc = "done", ![p].settles = @ + 1,
                              ![p].result = Ok(self)]
  /\ UNCHANGED <<collectionName, collection, nextId, inserts>>
  /\ UNCHANGED mvars

\* the client's collection operation threw or rejected: catch, reject(err)
ConstructorRejected(p) ==
  /\ ccall[p].pc = "awaitCollection"
  /\ ccall' = [ccall EXCEPT ![p].pc = "done", ![p].settles = @ + 1,
                            ![p].result = DriverError]
  /\ UNCHANGED <<collectionName, collection, nextId, inserts>>
  /\ UNCHANGED mvars

CollectionClientStale(f) ==
  IF f.connection = Null
    THEN NullDb
    ELSE [client |-> f.connection, name |-> "admin"]

\* the client MongoWrapper.collection hands to the constructor: this.db
CollectionClient(f) ==
  f.db

\* further arguments a caller gives MongoWrapper.collection after the name
RestArgs == {<<>>, <<"beta", "charly">>}

\* MongoWrapper.collection(collectionName): its one parameter is the name,
\* further arguments of the caller are not passed on
Collection(p, name, rest) ==
  NewMongoCollectionWrapper(p, "collection", rest, CollectionClient(FieldsNow),
                            name, <<>>)

\* the pass-through methods of MongoWrapper, each with the operation of
\* this.db it calls
PassThroughsDb ==
  {<<"dropCollection", "dropCollection">>,
   <<"listCollections", "listCollections">>,
   <<"stats", "stats">>,
   <<"createCollection", "createCollection">>,
   <<"collections", "collections">>}

\* the pass-through methods of MongoCollectionWrapper, each with the
\* operation of this.collection it calls
PassThroughsCollection ==
  {<<"find", "find">>, <<"insertMany", "insertMany">>,
   <<"bulkWrite", "bulkWrite">>, <<"replaceOne", "replaceOne">>,
   <<"findOne", "findOne">>, <<"rename", "rename">>, <<"drop", "drop">>,
   <<"options", "options">>, <<"isCapped", "isCapped">>,
   <<"createIndex", "createIndex">>, <<"createIndexes", "createIndexes">>,
   <<"dropIndex", "dropIndex">>, <<"dropIndexes", "dropIndexes">>,
   <<"reIndex", "reIndex">>, <<"listIndexes", "listIndexes">>,
   <<"indexExists", "indexExists">>,
   <<"indexInformation", "indexInformation">>,
   <<"estimatedDocumentCount", "estimatedDocumentCount">>,
   <<"countDocuments", "countDocuments">>, <<"distinct", "distinct">>,
   <<"indexes", "indexes">>, <<"stats", "stats">>,
   <<"findOneAndDelete", "findOneAndDelete">>,
   <<"findOneAndReplace", "findOneAndReplace">>,
   <<"findOneAndUpdate", "findOneAndUpdate">>,
   <<"aggregate", "aggregate">>, <<"watch", "watch">>,
   <<"parallelCollectionScan", "parallelCollectionScan">>,
   <<"geoHaystackSearch", "geoHaystackSearch">>,
   <<"initializeUnorderedBulkOp", "initializeUnorderedBulkOp">>,
   <<"initializeOrderedBulkOp", "initializeOrderedBulkOp">>}

PassThroughReturnWrapped(outcome) ==
  IF outcome.kind = "ok" THEN Ok(<<outcome.value>>) ELSE outcome

\* return this.db.fn(...args) / return this.collection.fn(...args)
PassThroughReturn(outcome) ==
  outcome

\* fn(...args) of MongoWrapper: return this.db.fn(...args)
PassThroughDb(p, m, args) ==
  /\ mcall[p].pc \in {"idle", "done"}
  /\ m \in PassThroughsDb
  /\ IF db = NullDb
       THEN mcall' = [mcall EXCEPT ![p] =
              ApiCall(m[1], "done", args, <<>>, 0,
                      Err("TypeError",
                          <<"Cannot read property ", m[2], " of null">>))]
       ELSE \E outcome \in DriverOutcomes :
              mcall' = [mcall EXCEPT ![p] =
                ApiCall(m[1], "done", args,
                        <<[on |-> db, fn |-> m[2], args |-> args,
                           outcome |-> outcome]>>, 0,
                        PassThroughReturn(outcome))]
  /\ UNCHANGED <<connected, connection, db, clients, connects>>
  /\ UNCHANGED cvars

\* the instances construction has resolved to
Instances ==
  {ccall[q].result.value :
     q \in {r \in Procs : /\ ccall[r].op \in {"constructor", "collection"}
                          /\ ccall[r].result.kind = "ok"}}

\* fn(...args) of MongoCollectionWrapper, called on an instance self that a
\* construction resolved to: return this.collection.fn(...args)
PassThroughCollection(p, m, args) ==
  /\ ccall[p].pc \in {"idle", "done"}
  /\ m \in PassThroughsCollection
  /\ \E self \in Instances, outcome \in DriverOutcomes :
       ccall' = [ccall EXCEPT ![p] =
         ApiCall(m[1], "done", [self |-> self, args |-> args],
                 <<[on |-> self.collection, fn |-> m[2], args |-> args,
                    outcome |-> outcome]>>, 0,
                 PassThroughReturn(outcome))]
  /\ UNCHANGED <<collectionName, collection, nextId, inserts>>
  /\ UNCHANGED mvars

\* the caller that drives the manager's lifecycle, and the caller that uses
\* the manager and the accessors meanwhile
Owner == 1
User == 2

InitApi ==
  /\ connected = Constructor.connected
  /\ connection = Constructor.connection
  /\ db = Constructor.db
  /\ clients = <<>>
  /\ connects = 0
  /\ mcall = [p \in Procs |-> IdleM]
  /\ collectionName = NullStr
  /\ collection = {}
  /\ nextId = 1
  /\ inserts = 0
  /\ ccall = [p \in Procs |-> IdleC]

Lifecycle ==
  \/ \E url \in Urls, name \in DbNames : ConnectCall(Owner, url, name)
  \/ ConnectFail(Owner)
  \/ ConnectResume(Owner)
  \/ DisconnectCall(Owner)
  \/ DisconnectFail(Owner)
  \/ DisconnectResume(Owner)

\* accessors are constructed while the manager connects and disconnects
NextApi ==
  \/ Lifecycle
  \/ \E c \in {NullDb, ClientMock}, name \in NameArgs :
       ConstructorCall(User, c, name)
  \/ \E name \in NameArgs, rest \in RestArgs : Collection(User, name, rest)
  \/ ConstructorResolved(User)
  \/ ConstructorRejected(User)

SpecApi == InitApi /\ [][NextApi]_vars

\* pass-through operations are called while the manager connects and
\* disconnects, and on accessors built from a client of the caller's own
NextPass ==
  \/ \E url \in Urls, name \in DbNames : ConnectCall(Owner, url, name)
  \/ ConnectResume(Owner)
  \/ DisconnectCall(Owner)
  \/ DisconnectResume(Owner)
  \/ ConstructorCall(User, ClientMock, "test")
  \/ ConstructorResolved(User)
  \/ \E m \in PassThroughsDb, args \in PassArgs :
       PassThroughDb(User, m, args)
  \/ \E m \in PassThroughsCollection, args \in PassArgs :
       PassThroughCollection(User, m, args)

SpecPass == InitApi /\ [][NextPass]_vars

(* ---------------- properties of the connection manager ---------------- *)

\* p starts a call of method op in this step
StartsM(p, op) ==
  /\ mcall[p].pc \in {"idle", "done"}
  /\ mcall'[p] # mcall[p]
  /\ mcall'[p].op = op

\* C1: in every reachable state, whatever connect and disconnect calls have
\* succeeded or failed, connection and db are both non-null exactly when
\* connected is true.
C1_HandlesBothSetIffConnected ==
  connected <=> (connection # Null /\ db # NullDb)

\* a connect has failed, a disconnect has succeeded and the manager is
\* connected again
C1_Witness ==
  /\ connected
  /\ \E p, q \in Procs :
       /\ mcall[p].op = "disconnect" /\ mcall[p].result = Ok(This)
       /\ mcall[q].op = "connect" /\ mcall[q].result = Ok(This)
  /\ \E i \in DOMAIN clients : clients[i].closed

\* C2: connect on a connected manager fails with MongoError 'Already
\* connected.', issues no driver connect and leaves connected, connection and
\* db as they were.
C2_ConnectWhileConnected ==
  [][\A p \in Procs :
       (connected /\ StartsM(p, "connect")) =>
          /\ mcall'[p].pc = "done"
          /\ mcall'[p].result = Err("MongoError", <<"Already connected.">>)
          /\ mcall'[p].drvConnect = <<>>
          /\ connects' = connects
          /\ clients' = clients
          /\ connected' /\ connection' = connection /\ db' = db]_vars

C2_Witness ==
  \E p \in Procs :
    /\ mcall[p].op = "connect"
    /\ mcall[p].result = Err("MongoError", <<"Already connected.">>)
    /\ connected

\* C3: disconnect on a manager that is not connected fails with MongoError
\* 'Not connected.', calls close on no client and leaves connected false with
\* both handles null.
C3_DisconnectWhileDisconnected ==
  [][\A p \in Procs :
       (~connected /\ StartsM(p, "disconnect")) =>
          /\ mcall'[p].pc = "done"
          /\ mcall'[p].result = Err("MongoError", <<"Not connected.">>)
          /\ mcall'[p].drvClose = <<>>
          /\ clients' = clients
          /\ ~connected' /\ connection' = Null /\ db' = NullDb]_vars

\* C4: connect(address, databaseName) on a disconnected manager calls the
\* driver's connect once with address, selects databaseName once on the client
\* the driver returned, then holds connected = true, connection = that client,
\* db = the selected database, and resolves to the manager.
C4_ConnectEstablishes ==
  [][\A p \in Procs :
       /\ (~connected /\ StartsM(p, "connect")) =>
             /\ mcall'[p].pc = "awaitConnect"
             /\ Len(mcall'[p].drvConnect) = 1
             /\ mcall'[p].drvConnect[1].url = mcall'[p].url
             /\ connects' = connects + 1
       /\ (/\ mcall[p].pc = "awaitConnect"
           /\ mcall'[p].pc = "done"
           /\ Len(clients') = Len(clients) + 1
           /\ ~mcall'[p].drvDb[1].threw) =>
             LET c == Len(clients') IN
               /\ Len(mcall'[p].drvConnect) = 1
               /\ clients'[c].url = mcall[p].url
               /\ Len(mcall'[p].drvDb) = 1
               /\ mcall'[p].drvDb[1].client = c
               /\ mcall'[p].drvDb[1].name = mcall[p].dbName
               /\ connected'
               /\ connection' = c
               /\ db' = [client |-> c, name |-> mcall[p].dbName]
               /\ mcall'[p].result = Ok(This)]_vars

C4_Witness ==
  \E p \in Procs :
    /\ mcall[p].op = "connect"
    /\ mcall[p].result = Ok(This)
    /\ connected
    /\ connection = mcall[p].drvDb[1].client
    /\ db.name = mcall[p].dbName

\* C5: disconnect on a connected manager calls close once, on the client it
\* holds, and when close has completed sets connected to false and connection
\* and db to null.
C5_DisconnectCloses ==
  [][\A p \in Procs :
       /\ (connected /\ StartsM(p, "disconnect")) =>
             /\ mcall'[p].pc = "awaitClose"
             /\ mcall'[p].drvClose = <<connection>>
             /\ \A i \in DOMAIN clients :
                  clients'[i].closeCalls =
                    clients[i].closeCalls + (IF i = connection THEN 1 ELSE 0)
             /\ connected' /\ connection' = connection /\ db' = db
       /\ (/\ mcall[p].pc = "awaitClose"
           /\ mcall'[p].pc = "done"
           /\ mcall'[p].result.kind = "ok") =>
             /\ clients'[mcall[p].drvClose[1]].closed
             /\ mcall'[p].drvClose = mcall[p].drvClose
             /\ \A i \in DOMAIN clients :
                  clients'[i].closeCalls = clients[i].closeCalls
             /\ ~connected' /\ connection' = Null /\ db' = NullDb]_vars

C5_Witness ==
  \E p \in Procs :
    /\ mcall[p].op = "disconnect"
    /\ mcall[p].result = Ok(This)
    /\ ~connected /\ connection = Null /\ db = NullDb
    /\ clients[mcall[p].drvClose[1]].closed
    /\ clients[mcall[p].drvClose[1]].closeCalls = 1

(* --------------- properties of the collection accessor ---------------- *)

\* documents of coll whose uuid is u
WithUuid(coll, u) ==
  {e \in coll : "uuid" \in DOMAIN e.doc /\ e.doc.uuid = u}

\* the pending driver call of p is executed by the engine in this step
\* (it resolves; it does not reject)
Resolves(p, pc) ==
  /\ ccall[p].pc = pc
  /\ ccall'[p] # ccall[p]
  /\ ccall'[p].result # DriverError

\* p starts an accessor call of method op in this step
StartsC(p, op) ==
  /\ ccall[p].pc \in {"idle", "done"}
  /\ ccall'[p] # ccall[p]
  /\ ccall'[p].op = op

\* C6 (as stated): for every document D whose uuid the probe does not find,
\* insertOne(D) returns the driver's insertion result for a document equal to
\* D and a probe for D's uuid afterwards returns exactly one match.
C6_InsertThenExactlyOne ==
  [][\A p \in Procs :
       Resolves(p, "awaitInsert") =>
          /\ ccall'[p].result.kind = "ok"
          /\ ccall'[p].result.value.ops = <<ccall[p].arg>>
          /\ Cardinality(DbFind(collection', [uuid |-> ccall[p].arg.uuid])) = 1
    ]_vars

\* C6 (amended): for every document D whose uuid the probe does not find,
\* insertOne(D) issues one insert of a document equal to D and returns the
\* driver's result for it; a probe for D's uuid afterwards returns exactly one
\* match when no document with that uuid was written between the call's probe
\* and its insert.
C6_InsertThenExactlyOneUnlessRaced ==
  [][\A p \in Procs :
       /\ (/\ Resolves(p, "awaitFind")
           /\ WithUuid(collection, ccall[p].arg.uuid) = {}) =>
             /\ ccall'[p].pc = "awaitInsert"
             /\ ccall'[p].drv = <<"find", "insertOne">>
             /\ ccall'[p].sent = [doc |-> ccall[p].arg]
             /\ ccall'[p].arg = ccall[p].arg
             /\ collection' = collection
       /\ Resolves(p, "awaitInsert") =>
             /\ ccall'[p].result =
                  Ok([insertedCount |-> 1, insertedId |-> nextId,
                      ops |-> <<ccall[p].arg>>])
             /\ ccall'[p].drv = <<"find", "insertOne">>
             /\ collection' =
                  collection \cup {[id |-> nextId, doc |-> ccall[p].arg]}
             /\ ~(\E e \in collection : e.id = nextId)
             /\ (WithUuid(collection, ccall[p].arg.uuid) = {} =>
                   Cardinality(DbFind(collection',
                                      [uuid |-> ccall[p].arg.uuid])) = 1)
    ]_vars

\* an insertOne has returned the insertion result of a document that has
\* other fields than uuid, and that document is the only one with its uuid
C6_Witness ==
  \E p \in Procs :
    /\ ccall[p].op = "insertOne"
    /\ ccall[p].result.kind = "ok"
    /\ DOMAIN ccall[p].result.value.ops[1] = {"uuid", "foo"}
    /\ \E e \in collection :
         /\ e.id = ccall[p].result.value.insertedId
         /\ e.doc = ccall[p].result.value.ops[1]
         /\ WithUuid(collection, e.doc.uuid) = {e}

\* C7: for every document D whose uuid the probe finds, insertOne(D) fails
\* with MongoDuplicateEntryError naming the collection, the driver's insert is
\* not invoked and the number of documents is unchanged.
C7_DuplicateRejected ==
  [][\A p \in Procs :
       (/\ Resolves(p, "awaitFind")
        /\ WithUuid(collection, ccall[p].arg.uuid) # {}) =>
          /\ ccall'[p].pc = "done"
          /\ ccall'[p].result.kind = "error"
          /\ ccall'[p].result.type = "MongoDuplicateEntryError"
          /\ ccall'[p].result.message =
               <<"Cannot insert into ", collectionName, ": UUID already exists.">>
          /\ ccall'[p].drv = <<"find">>
          /\ Cardinality(collection') = Cardinality(collection)
          /\ collection' = collection
          /\ nextId' = nextId]_vars

C7_Witness ==
  \E p \in Procs :
    /\ ccall[p].op = "insertOne"
    /\ ccall[p].result.kind = "error"
    /\ ccall[p].result.type = "MongoDuplicateEntryError"
    /\ ccall[p].drv = <<"find">>
    /\ collection # {}

\* C8: two overlapping insertOne calls for one uuid that the collection does
\* not hold can both pass the probe and both write.  Nothing re-checks after
\* the probe: a call whose probe found nothing has its insert issued while
\* another insert of that uuid is pending, and the engine stores the document
\* even when the uuid has been written in the meantime, so two documents
\* share the uuid.
C8_SecondWriterNotStopped ==
  [][\A p \in Procs :
       /\ (/\ Resolves(p, "awaitFind")
           /\ WithUuid(collection, ccall[p].arg.uuid) = {}
           /\ \E q \in Procs \ {p} :
                /\ ccall[q].pc = "awaitInsert"
                /\ ccall[q].arg.uuid = ccall[p].arg.uuid) =>
             ccall'[p].pc = "awaitInsert"
       /\ (/\ Resolves(p, "awaitInsert")
           /\ WithUuid(collection, ccall[p].arg.uuid) # {}) =>
             /\ ccall'[p].result.kind = "ok"
             /\ Cardinality(WithUuid(collection', ccall[p].arg.uuid)) =
                  Cardinality(WithUuid(collection, ccall[p].arg.uuid)) + 1
    ]_vars

\* both callers' insertOne succeeded, each after one probe and one insert,
\* and the collection holds their two documents under one uuid
C8_Witness ==
  /\ \A p \in Procs :
       /\ ccall[p].op = "insertOne"
       /\ ccall[p].result.kind = "ok"
       /\ ccall[p].drv = <<"find", "insertOne">>
  /\ \E e1, e2 \in collection :
       /\ e1.id # e2.id
       /\ e1.doc.uuid = e2.doc.uuid
       /\ {e1.id, e2.id} = {ccall[p].result.value.insertedId : p \in Procs}

\* C9: for every filter that matches no document, updateOne and deleteOne
\* fail with MongoNonExistentEntryError naming the collection and leave the
\* collection as it was.
C9_NoMatchRejected ==
  [][\A p \in Procs :
       /\ (/\ Resolves(p, "awaitUpdate")
           /\ ~(\E e \in collection : Matches(e.doc, ccall[p].sent.filter))) =>
             /\ ccall'[p].result.kind = "error"
             /\ ccall'[p].result.type = "MongoNonExistentEntryError"
             /\ ccall'[p].result.message =
                  <<"Cannot update ", collectionName, ": UUID doesn't exists.">>
             /\ collection' = collection
       /\ (/\ Resolves(p, "awaitDelete")
           /\ ~(\E e \in collection : Matches(e.doc, ccall[p].sent.filter))) =>
             /\ ccall'[p].result.kind = "error"
             /\ ccall'[p].result.type = "MongoNonExistentEntryError"
             /\ ccall'[p].result.message =
                  <<"Cannot delete ", collectionName, ": UUID doesn't exists.">>
             /\ collection' = collection
    ]_vars

\* an updateOne and a deleteOne have both failed on a non-empty collection
C9_Witness ==
  /\ collection # {}
  /\ \E p, q \in Procs :
       /\ ccall[p].op = "updateOne"
       /\ ccall[p].result.kind = "error"
       /\ ccall[p].result.type = "MongoNonExistentEntryError"
       /\ ccall[q].op = "deleteOne"
       /\ ccall[q].result.kind = "error"
       /\ ccall[q].result.type = "MongoNonExistentEntryError"

\* C10: when the filter matches, updateOne applies { [strategy]: fields }
\* ('$set' when strategy is omitted) to one matching document and returns
\* that document as it is after the update.
C10_ReturnsUpdatedDocument ==
  [][\A p \in Procs :
       (/\ Resolves(p, "awaitUpdate")
        /\ \E e \in collection : Matches(e.doc, ccall[p].sent.filter)) =>
          \E e \in collection :
            /\ Matches(e.doc, ccall[p].sent.filter)
            /\ collection' =
                 (collection \ {e}) \cup
                   {[id |-> e.id, doc |-> ApplyUpdate(e.doc, ccall[p].sent.update)]}
            /\ ccall'[p].result =
                 Ok(ApplyUpdate(e.doc, ccall[p].sent.update))]_vars

\* C12: when the filter matches at least one document, deleteOne(filter)
\* removes exactly one matching document in a single driver call, returns the
\* removed document and leaves every other document as it was.
C12_DeleteOneRemovesOne ==
  [][\A p \in Procs :
       /\ StartsC(p, "deleteOne") =>
             /\ ccall'[p].drv = <<"findOneAndDelete">>
             /\ collection' = collection
       /\ (/\ Resolves(p, "awaitDelete")
           /\ \E e \in collection : Matches(e.doc, ccall[p].sent.filter)) =>
             /\ ccall'[p].drv = <<"findOneAndDelete">>
             /\ \E e \in collection :
                  /\ Matches(e.doc, ccall[p].sent.filter)
                  /\ collection' = collection \ {e}
                  /\ Cardinality(collection') = Cardinality(collection) - 1
                  /\ ccall'[p].result = Ok(e.doc)]_vars

\* a deleteOne has returned a document while another document that matched
\* the same filter is still stored
C12_Witness ==
  \E p \in Procs :
    /\ ccall[p].op = "deleteOne"
    /\ ccall[p].result.kind = "ok"
    /\ \E e \in collection :
         /\ "foo" \in DOMAIN e.doc
         /\ "foo" \in DOMAIN ccall[p].result.value
         /\ e.doc.foo = ccall[p].result.value.foo

\* C11: updateOne called with a uuid string as its first argument targets the
\* document whose uuid equals that string: the driver's find-and-update is
\* issued with the filter {uuid: <string>}, and the document with that uuid is
\* the one updated and returned.
C11_UuidStringTargetsDocument ==
  [][\A p \in Procs :
       /\ (StartsC(p, "updateOne") /\ ccall'[p].arg \in StringFilters) =>
             ccall'[p].sent.filter = [uuid |-> ccall'[p].arg.string]
       /\ (/\ Resolves(p, "awaitUpdate")
           /\ ccall[p].arg \in StringFilters
           /\ WithUuid(collection, ccall[p].arg.string) # {}) =>
             /\ ccall'[p].result.kind = "ok"
             /\ ccall'[p].result.value.uuid = ccall[p].arg.string]_vars

C15_DeleteManyRemovesAll ==
  [][\A p \in Procs :
       Resolves(p, "awaitDeleteMany") =>
          /\ DbFind(collection', ccall[p].sent.filter) = {}
          /\ collection' = collection \ DbFind(collection, ccall[p].sent.filter)]_vars

\* p settles a safeInsertSubfields call in this step
SettlesSafeInsert(p) ==
  /\ ccall'[p] # ccall[p]
  /\ ccall'[p].op = "safeInsertSubfields"
  /\ ccall'[p].pc = "done"

\* C19: safeInsertSubfields(filter, fields), fields holding one top-level key
\* k whose value carries a uuid, probes for documents whose k.uuid equals that
\* uuid; if the probe finds any it fails with MongoDuplicateEntryError and
\* issues no update; otherwise it issues exactly one find-and-update of filter
\* with {'$push': fields}.
C19_SafeInsertSubfields ==
  [][\A p \in Procs :
       SettlesSafeInsert(p) =>
          IF SubfieldFind(collection, ccall'[p].sent.path[1],
                          ccall'[p].sent.value) # {}
            THEN /\ ccall'[p].result = DuplicateEntry(collectionName)
                 /\ \A i \in DOMAIN ccall'[p].drv :
                      ccall'[p].drv[i] # "findOneAndUpdate"
            ELSE Cardinality({i \in DOMAIN ccall'[p].drv :
                                ccall'[p].drv[i] = "findOneAndUpdate"}) = 1]_vars

\* p starts constructing an accessor in this step, directly or through
\* MongoWrapper.collection
StartsConstruction(p) ==
  StartsC(p, "constructor") \/ StartsC(p, "collection")

\* C16: constructing a collection accessor fails with MongoError 'Mongo
\* client is not provided.' when the client is null and with MongoError
\* 'Collection name is not provided.' when the client is present but the name
\* is empty; the client check comes first, and in both cases the client's
\* collection operation is never invoked.
C16_ConstructorGuards ==
  [][\A p \in Procs :
       StartsConstruction(p) =>
          /\ ccall'[p].arg.mongoClient = NullDb =>
               /\ ccall'[p].pc = "done"
               /\ ccall'[p].result =
                    Err("MongoError", <<"Mongo client is not provided.">>)
               /\ ccall'[p].drv = <<>>
          /\ (/\ ccall'[p].arg.mongoClient # NullDb
              /\ ccall'[p].arg.collectionName = "") =>
               /\ ccall'[p].pc = "done"
               /\ ccall'[p].result =
                    Err("MongoError", <<"Collection name is not provided.">>)
               /\ ccall'[p].drv = <<>>]_vars

\* a construction with a null client and an empty name has failed on the
\* client check
C16_Witness ==
  \E p \in Procs :
    /\ ccall[p].op = "constructor"
    /\ ccall[p].arg.mongoClient = NullDb
    /\ ccall[p].arg.collectionName = ""
    /\ ccall[p].result = Err("MongoError", <<"Mongo client is not provided.">>)

\* C17: constructing a collection accessor with a non-null client and a
\* non-empty name calls the client's collection operation exactly once with
\* that name and settles exactly once: it resolves to an instance whose
\* collectionName is the name and whose collection is the handle the client
\* returned, or, when the client's collection operation fails, it rejects with
\* that same error.
C17_ConstructorBinds ==
  [][\A p \in Procs :
       /\ (/\ StartsConstruction(p)
           /\ ccall'[p].arg.mongoClient # NullDb
           /\ ~Falsy(ccall'[p].arg.collectionName)) =>
             /\ ccall'[p].pc = "awaitCollection"
             /\ ccall'[p].settles = 0
             /\ ccall'[p].drv =
                  <<[on |-> ccall'[p].arg.mongoClient, fn |-> "collection",
                     args |-> <<ccall'[p].arg.collectionName>>]>>
       /\ (ccall[p].pc = "awaitCollection" /\ ccall'[p] # ccall[p]) =>
             /\ ccall'[p].pc = "done"
             /\ ccall'[p].drv = ccall[p].drv
             /\ ccall'[p].settles = 1
             /\ \/ ccall'[p].result = DriverError
                \/ ccall'[p].result =
                     Ok([collection |->
                           DriverCollection(ccall[p].arg.mongoClient,
                                            ccall[p].arg.collectionName),
                         collectionName |-> ccall[p].arg.collectionName])]_vars

\* a construction through a connected manager has resolved to an instance
C17_Witness ==
  \E p \in Procs :
    /\ ccall[p].op = "collection"
    /\ ccall[p].settles = 1
    /\ ccall[p].result.kind = "ok"
    /\ ccall[p].result.value.collectionName = "users"

\* C18: a collection accessor cannot be obtained without a prior successful
\* connection: in every state where the manager is disconnected (never
\* connected, after a failed connect, or after disconnect), collection(name)
\* fails with the client-missing MongoError and yields no accessor.
C18_NoAccessorWhileDisconnected ==
  [][\A p \in Procs :
       (~connected /\ StartsC(p, "collection")) =>
          /\ ccall'[p].pc = "done"
          /\ ccall'[p].result =
               Err("MongoError", <<"Mongo client is not provided.">>)
          /\ ccall'[p].drv = <<>>]_vars

\* collection(name) has failed on a manager that was connected and then
\* disconnected
C18_Witness ==
  /\ ~connected
  /\ mcall[Owner].op = "disconnect"
  /\ mcall[Owner].result = Ok(This)
  /\ ccall[User].op = "collection"
  /\ ccall[User].arg.collectionName = "test"
  /\ ccall[User].result = Err("MongoError", <<"Mongo client is not provided.">>)

\* the pass-through operations of the manager and of the accessor
ManagerPassThroughNames ==
  {"collections", "dropCollection", "listCollections", "stats",
   "createCollection"}

AccessorPassThroughNames ==
  {"aggregate", "findOneAndUpdate", "findOneAndDelete", "stats", "indexes",
   "createIndex", "dropIndex", "listIndexes", "indexInformation",
   "countDocuments", "find", "insertMany", "bulkWrite", "replaceOne",
   "findOne", "rename", "drop", "options", "isCapped", "createIndexes",
   "dropIndexes", "reIndex", "indexExists", "estimatedDocumentCount",
   "distinct", "findOneAndReplace", "watch", "parallelCollectionScan",
   "geoHaystackSearch", "initializeUnorderedBulkOp",
   "initializeOrderedBulkOp"}

\* the manager's pass-through fn, started by p in this step, is forwarded
ForwardsDb(p, fn) ==
  /\ Len(mcall'[p].drv) = 1
  /\ mcall'[p].drv[1].on = db
  /\ mcall'[p].drv[1].fn = fn
  /\ mcall'[p].drv[1].args = mcall'[p].arg
  /\ mcall'[p].result = mcall'[p].drv[1].outcome
  /\ UNCHANGED <<connected, connection, db, clients, ccall>>

\* the accessor's pass-through fn, started by p in this step, is forwarded
ForwardsCollection(p, fn) ==
  /\ ccall'[p].arg.self \in Instances
  /\ Len(ccall'[p].drv) = 1
  /\ ccall'[p].drv[1].on = ccall'[p].arg.self.collection
  /\ ccall'[p].drv[1].fn = fn
  /\ ccall'[p].drv[1].args = ccall'[p].arg.args
  /\ ccall'[p].result = ccall'[p].drv[1].outcome
  /\ \A q \in Procs \ {p} : ccall'[q] = ccall[q]
  /\ UNCHANGED <<connected, connection, db, clients, mcall>>

\* C20 (as stated): every pass-through operation of the connection manager
\* and of the collection accessor invokes the same-named driver operation
\* exactly once with the same arguments in the same order, returns the
\* driver's result unmodified, and changes no state of the wrapper.
C20_PassThroughsForward ==
  [][\A p \in Procs :
       /\ \A fn \in ManagerPassThroughNames :
            StartsM(p, fn) => ForwardsDb(p, fn)
       /\ \A fn \in AccessorPassThroughNames :
            StartsC(p, fn) => ForwardsCollection(p, fn)]_vars

\* C20 (amended): every pass-through operation of the connection manager,
\* called while the manager holds a database handle, and every pass-through
\* operation of the collection accessor invokes the same-named driver
\* operation exactly once with the same arguments in the same order, returns
\* the driver's result unmodified, and changes no state of the wrapper; called
\* while the manager holds no database handle, a pass-through operation of the
\* manager throws a TypeError, invokes no driver operation and changes no
\* state of the wrapper.
C20_PassThroughsForwardWithHandle ==
  [][\A p \in Procs :
       /\ \A fn \in ManagerPassThroughNames :
            /\ (db # NullDb /\ StartsM(p, fn)) => ForwardsDb(p, fn)
            /\ (db = NullDb /\ StartsM(p, fn)) =>
                  /\ mcall'[p].drv = <<>>
                  /\ mcall'[p].result.kind = "error"
                  /\ mcall'[p].result.type = "TypeError"
                  /\ UNCHANGED <<connected, connection, db, clients, ccall>>
       /\ \A fn \in AccessorPassThroughNames :
            StartsC(p, fn) => ForwardsCollection(p, fn)]_vars

\* listCollections has returned the driver's result on a connected manager
\* and aggregate has returned the driver's result on an accessor
C20_Witness ==
  /\ connected
  /\ mcall[User].op = "listCollections"
  /\ mcall[User].result = Ok("driverResult")
  /\ ccall[User].op = "aggregate"
  /\ ccall[User].result = Ok("driverResult")
  /\ ccall[User].drv[1].args = <<"aplfa", "beta", "charly">>

\* C22: connect registers exactly one event listener on the opened client
\* through its on operation, and when the client reports an error to that
\* listener, connect rejects with that error.
C22_ConnectRegistersListener ==
  \A i \in DOMAIN clients : clients[i].listeners = 1

\* C25: for any interleaving of connect calls on one manager, including two
\* connect calls started before either has finished, every client opened by
\* connect is either the one held in connection or has been closed, so no
\* opened client is left unreferenced and unclosed; stated for the connect
\* that completes after another connect has completed.
C25_NoClientLeftOpen ==
  [][\A p \in Procs :
       (/\ mcall[p].pc = "awaitConnect"
        /\ Len(clients') = Len(clients) + 1
        /\ connected) =>
          \A i \in DOMAIN clients' : i = connection' \/ clients'[i].closed]_vars

\* C26: for any interleaving of disconnect calls on one connected manager,
\* including two disconnect calls started before either has finished, close is
\* invoked exactly once on the held client and every disconnect call after the
\* first fails with 'Not connected.'.
C26_SecondDisconnectRejected ==
  [][\A p \in Procs :
       (/\ StartsM(p, "disconnect")
        /\ \E q \in Procs \ {p} : mcall[q].pc = "awaitClose") =>
          /\ mcall'[p].result = Err("MongoError", <<"Not connected.">>)
          /\ mcall'[p].drvClose = <<>>
          /\ clients' = clients]_vars

\* C27: when a driver call inside connect (opening the client or selecting
\* the database) or inside disconnect (closing the client) fails, the error
\* propagates unmodified to the caller and connected, connection and db all
\* hold the values they had before the call.
C27_FailureRestoresState ==
  [][\A p \in Procs :
       (/\ mcall[p].pc \in {"awaitConnect", "awaitClose"}
        /\ mcall'[p].pc = "done"
        /\ mcall'[p].result.kind = "error") =>
          /\ mcall'[p].result = DriverError
          /\ UNCHANGED <<connected, connection, db>>]_vars

\* C28: the lifecycle can repeat: a disconnect that succeeds leaves the
\* manager in the state of a newly created one, a connect called in that
\* state is not refused, and a connect that succeeds holds the client it
\* opened and the database selected on it, not the handles of an earlier
\* connection.
C28_LifecycleRepeats ==
  [][\A p \in Procs :
       /\ (mcall[p].pc = "awaitClose" /\ mcall'[p].result = Ok(This)) =>
             /\ connected' = Constructor.connected
             /\ connection' = Constructor.connection
             /\ db' = Constructor.db
       /\ (FieldsNow = Constructor /\ StartsM(p, "connect")) =>
             mcall'[p].pc = "awaitConnect"
       /\ (mcall[p].pc = "awaitConnect" /\ mcall'[p].result = Ok(This)) =>
             /\ connected'
             /\ connection' = Len(clients')
             /\ connection' \notin DOMAIN clients
             /\ ~clients'[connection'].closed
             /\ db' = SelectDb(connection', mcall[p].dbName)]_vars

\* a second connection is held after the first was opened and closed, no
\* driver call having failed
C28_Witness ==
  /\ connected
  /\ connects = 2
  /\ Len(clients) = 2
  /\ clients[1].closed /\ clients[1].closeCalls = 1
  /\ connection = 2
  /\ db = SelectDb(2, "cc")

\* C30: MongoWrapper.collection called on a connected manager with a name and
\* further arguments calls the database handle's collection operation exactly
\* once with the same arguments.
C30_CollectionForwardsArguments ==
  [][\A p \in Procs :
       (/\ connected
        /\ StartsC(p, "collection")
        /\ ~Falsy(ccall'[p].arg.collectionName)) =>
          ccall'[p].drv =
            <<[on |-> db, fn |-> "collection",
               args |-> <<ccall'[p].arg.collectionName>> \o ccall'[p].arg.rest]>>]_vars

\* the positions at which an accessor operation awaits a driver call
AwaitingDriver ==
  {"awaitFind", "awaitInsert", "awaitUpdate", "awaitDelete",
   "awaitUpdateMany", "awaitDeleteMany"}

\* the number of calls of driver operation fn among the calls drv
Issued(drv, fn) ==
  Cardinality({i \in DOMAIN drv : drv[i] = fn})

\* C21: when a driver call made by insertOne, updateOne, updateMany,
\* deleteOne, deleteMany or safeInsertSubfields fails, the operation rejects
\* with that same error and makes no further driver call: nothing is retried,
\* and in insertOne and safeInsertSubfields a failed probe means the write is
\* never issued.
C21_DriverFailurePropagates ==
  [][\A p \in Procs :
       /\ (ccall[p].pc \in AwaitingDriver /\ ccall'[p].result = DriverError) =>
             /\ ccall'[p].pc = "done"
             /\ ccall'[p].op = ccall[p].op
             /\ ccall'[p].drv = ccall[p].drv
             /\ collection' = collection
             /\ ccall[p].pc = "awaitFind" => Issued(ccall'[p].drv, "insertOne") = 0
       /\ (ccall'[p].op = "safeInsertSubfields" /\ ccall'[p].result.kind = "error") =>
             Issued(ccall'[p].drv, "findOneAndUpdate") = 0]_vars

\* the probe of an insertOne has failed and the call has rejected with the
\* driver's error, having made the probe only
C21_Witness ==
  \E p \in Procs :
    /\ ccall[p].op = "insertOne"
    /\ ccall[p].result = DriverError
    /\ ccall[p].drv = <<"find">>

\* the operations that are one driver call, each with that call
SingleCall ==
  [updateOne |-> "findOneAndUpdate", updateMany |-> "updateMany",
   deleteOne |-> "findOneAndDelete", deleteMany |-> "findAndRemove"]

\* C23: every accessor operation is a single driver call, except insertOne
\* and safeInsertSubfields which make two in a fixed order: the probe completes
\* before the write is issued, the write is issued at most once and only when
\* the probe found nothing, and a call that ends in a duplicate-entry error has
\* made the probe only.
C23_ProbeThenWrite ==
  [][\A p \in Procs :
       /\ \A op \in DOMAIN SingleCall :
            (ccall'[p].op = op /\ ccall'[p].pc = "done") =>
               ccall'[p].drv = <<SingleCall[op]>>
       /\ (ccall'[p].op = "insertOne" /\ ccall'[p].pc = "done") =>
            /\ ccall'[p].drv \in {<<"find">>, <<"find", "insertOne">>}
            /\ ccall'[p].result = DuplicateEntry(collectionName) =>
                 ccall'[p].drv = <<"find">>
       /\ (ccall[p].pc = "awaitFind" /\ ccall'[p].pc = "awaitInsert") =>
            DbFind(collection, ccall[p].sent.filter) = {}
       /\ (ccall'[p].op = "safeInsertSubfields" /\ ccall'[p].pc = "done") =>
            \/ /\ ccall'[p].result = DuplicateEntry(collectionName)
               /\ Issued(ccall'[p].drv, "findOneAndUpdate") = 0
            \/ ccall'[p].result = DriverError
            \/ /\ Issued(ccall'[p].drv, "findOneAndUpdate") = 1
               /\ ccall'[p].drv[Len(ccall'[p].drv)] = "findOneAndUpdate"]_vars

\* C24: if a collection starts with no two documents sharing a uuid and is
\* modified only by insertOne, updateOne with fields that do not include uuid,
\* and deleteOne calls that do not overlap in time, then in every reachable
\* state no two documents share a uuid.
C24_UuidsStayUnique ==
  \A d, e \in collection : d.doc.uuid = e.doc.uuid => d = e

\* an insertOne has added a document to a collection that held documents, and
\* the other caller's later insertOne of the same uuid was refused
C24_Witness ==
  \E p, q \in Procs :
    /\ ccall[p].op = "insertOne"
    /\ ccall[p].result.kind = "ok"
    /\ ccall[q].op = "insertOne"
    /\ ccall[q].result = DuplicateEntry(collectionName)
    /\ Cardinality(collection) >= 2

\* C29: the duplicate probe of safeInsertSubfields looks at the whole
\* collection and at the first top-level key of fields only: the push is
\* refused with MongoDuplicateEntryError whenever any document, including one
\* that filter does not match, already holds that subfield uuid.
C29_ProbeSpansCollection ==
  [][\A p \in Procs :
       (/\ SettlesSafeInsert(p)
        /\ \E e \in SubfieldFind(collection, ccall'[p].sent.path[1],
                                 ccall'[p].sent.value) :
             \A f \in Filters : ~Matches(e.doc, f)) =>
          ccall'[p].result = DuplicateEntry(collectionName)]_vars

====
